---- MODULE Spec2Model ----
(***************************************************************************)
(* Helix TypeScript SDK: the AES-256-GCM envelope (HelixEncryption and the *)
(* standalone key-string helpers) and the HelixClient upload / download    *)
(* pipelines with their session token.                                     *)
(*                                                                         *)
(* Bytes are integers 0..255, buffers are sequences of bytes.  A base64    *)
(* string is the sequence of its sextet values 0..63, with 64 for '='.     *)
(* A text (a file name) is the sequence of its code points.                *)
(***************************************************************************)
EXTENDS Integers, Sequences, FiniteSets, TLC

(***************************************************************************)
(* Program constants                                                       *)
(***************************************************************************)
IV_LENGTH == 12
TAG_LENGTH == 16
KEY_LENGTH == 32
timeout == 30000

(***************************************************************************)
(* Bounds of the model                                                     *)
(***************************************************************************)
MaxTicks == 1
TickMs == 30000
MaxLen == 2
\* size of the runtime's shared allocation pool (8192 bytes in Node.js)
PoolSize == 64

NULL == [type |-> "null"]
\* undefined in a member that otherwise holds a string or a buffer (a sequence)
UNDEFINED == <<-1>>
\* null in a member that otherwise holds a string
NONE == "null"

\* random sources: the keys generateKey can return, the IVs getRandomValues can return
Key1 == [raw |-> [i \in 1..KEY_LENGTH |-> i]]
Key2 == [raw |-> [i \in 1..KEY_LENGTH |-> (7 * i + 3) % 256]]
Keys == {Key1, Key2}
IVs == {[i \in 1..IV_LENGTH |-> 0], [i \in 1..IV_LENGTH |-> (17 * i) % 256]}

\* byte buffers handed to the cipher directly
ByteVals == {0, 255}
Buffers == UNION {[1..n -> ByteVals] : n \in 0..MaxLen}

\* inputs of the client calls
MimeType == "text/plain"
\* (file, options.name, options.encrypt, options.onProgress supplied)
UploadInputs ==
    { [file |-> <<104, 105>>, name |-> <<233, 97>>, encrypt |-> "true",
       onProgress |-> TRUE],
      [file |-> <<>>, name |-> <<97>>, encrypt |-> "undefined",
       onProgress |-> FALSE],
      [file |-> <<104, 105>>, name |-> <<97>>, encrypt |-> "false",
       onProgress |-> TRUE],
      [file |-> <<>>, name |-> <<233, 97>>, encrypt |-> "false",
       onProgress |-> FALSE] }
Cids == {"abc123"}
FileIds == {"f1"}
Tokens == {[jwt |-> "t1", exp |-> 20], [jwt |-> "t2", exp |-> 100]}
Wallet1 == [publicKey |-> "pk1", signMessage |-> TRUE]
Wallet2 == [publicKey |-> "pk2", signMessage |-> FALSE]
Wallet3 == [publicKey |-> NONE, signMessage |-> TRUE]
Wallets == {Wallet1, Wallet2, Wallet3}

(***************************************************************************)
(* Small helpers on buffers                                                *)
(***************************************************************************)
RECURSIVE Sum(_)
Sum(s) == IF Len(s) = 0 THEN 0 ELSE Head(s) + Sum(Tail(s))

RECURSIVE WSum(_, _)
WSum(s, w) == IF Len(s) = 0 THEN 0 ELSE w * Head(s) + WSum(Tail(s), w + 1)

\* Uint8Array.prototype.slice(from) and slice(from, to), 0-based, end exclusive
slice(a, from, to) ==
    LET t == IF to > Len(a) THEN Len(a) ELSE to
    IN  IF from >= t THEN <<>> ELSE SubSeq(a, from + 1, t)

(***************************************************************************)
(* Buffer.from(raw).toString('base64') and Buffer.from(s, 'base64')        *)
(***************************************************************************)
PAD == 64

RECURSIVE toBase64(_)
toBase64(b) ==
    IF Len(b) = 0 THEN <<>>
    ELSE IF Len(b) = 1 THEN
        << (b[1] \div 4), (b[1] % 4) * 16, PAD, PAD >>
    ELSE IF Len(b) = 2 THEN
        << (b[1] \div 4), (b[1] % 4) * 16 + (b[2] \div 16), (b[2] % 16) * 4, PAD >>
    ELSE
        << (b[1] \div 4), (b[1] % 4) * 16 + (b[2] \div 16),
           (b[2] % 16) * 4 + (b[3] \div 64), (b[3] % 64) >>
        \o toBase64(SubSeq(b, 4, Len(b)))

RECURSIVE untilPad(_)
untilPad(s) ==
    IF Len(s) = 0 \/ Head(s) = PAD THEN <<>>
    ELSE <<Head(s)>> \o untilPad(Tail(s))

RECURSIVE decodeSextets(_)
decodeSextets(c) ==
    IF Len(c) < 2 THEN <<>>
    ELSE IF Len(c) = 2 THEN
        << c[1] * 4 + (c[2] \div 16) >>
    ELSE IF Len(c) = 3 THEN
        << c[1] * 4 + (c[2] \div 16), (c[2] % 16) * 16 + (c[3] \div 4) >>
    ELSE
        << c[1] * 4 + (c[2] \div 16), (c[2] % 16) * 16 + (c[3] \div 4),
           (c[3] % 4) * 64 + c[4] >>
        \o decodeSextets(SubSeq(c, 5, Len(c)))

fromBase64(s) == decodeSextets(untilPad(s))

(***************************************************************************)
(* new TextEncoder().encode(text): UTF-8 of code points below 0x800        *)
(***************************************************************************)
RECURSIVE utf8Encode(_)
utf8Encode(t) ==
    IF Len(t) = 0 THEN <<>>
    ELSE (IF Head(t) < 128 THEN <<Head(t)>>
          ELSE << 192 + (Head(t) \div 64), 128 + (Head(t) % 64) >>)
         \o utf8Encode(Tail(t))

\* new TextDecoder().decode(bytes), for the encodings of code points below 0x800
RECURSIVE utf8Decode(_)
utf8Decode(b) ==
    IF Len(b) = 0 THEN <<>>
    ELSE IF Head(b) < 128 THEN <<Head(b)>> \o utf8Decode(Tail(b))
    ELSE IF Len(b) = 1 THEN <<65533>>
    ELSE <<(Head(b) - 192) * 64 + (b[2] - 128)>> \o utf8Decode(SubSeq(b, 3, Len(b)))

(***************************************************************************)
(* The ArrayBuffer behind a Buffer that Buffer.from(string, 'base64')      *)
(* returned (its .buffer member).  A polyfill allocates exactly the        *)
(* decoded bytes; Node.js carves a Buffer shorter than half the pool out   *)
(* of the shared pool, and .buffer is then the whole pool, the decoded     *)
(* bytes lying at the Buffer's byteOffset among whatever else it holds.    *)
(***************************************************************************)
PoolOffsets == {0, 8}
PoolFill == {0, 255}

arrayBuffers(bytes) ==
    {bytes} \cup
    (IF 2 * Len(bytes) >= PoolSize THEN {}
     ELSE {[i \in 1..PoolSize |->
                IF i > off /\ i <= off + Len(bytes) THEN bytes[i - off] ELSE fill] :
            off \in PoolOffsets, fill \in PoolFill})

(***************************************************************************)
(* The platform's AES-GCM (crypto.subtle), as a small AEAD: a keystream    *)
(* from key and IV added to the plaintext, followed by a 16-byte tag over  *)
(* key, IV and ciphertext.  Decryption verifies the tag before it returns  *)
(* any plaintext.                                                          *)
(***************************************************************************)
keystream(raw, iv, i) ==
    (raw[((i - 1) % Len(raw)) + 1] + iv[((i - 1) % Len(iv)) + 1] + 7 * i) % 256

\* byte j of the tag is
\*   (WSum(ct, j) + WSum(raw, j + 1) + WSum(iv, j + 2) + 31 * Len(ct) + j) % 256,
\* and WSum(s, w) = w * Sum(s) + WSum(s, 0)
gcmTag(raw, iv, ct) ==
    LET a == Sum(ct) + Sum(raw) + Sum(iv) + 1
        b == WSum(ct, 0) + WSum(raw, 0) + WSum(iv, 0) + Sum(raw) + 2 * Sum(iv)
                + 31 * Len(ct)
    IN  [j \in 1..TAG_LENGTH |-> (j * a + b) % 256]

subtleEncrypt(iv, key, data) ==
    LET ct == [i \in 1..Len(data) |-> (data[i] + keystream(key.raw, iv, i)) % 256]
    IN  ct \o gcmTag(key.raw, iv, ct)

subtleDecrypt(iv, key, ciphertext) ==
    IF Len(ciphertext) < TAG_LENGTH \/ Len(iv) = 0 THEN
        [ok |-> FALSE, error |-> "OperationError"]
    ELSE
        LET n  == Len(ciphertext) - TAG_LENGTH
            ct == slice(ciphertext, 0, n)
            tg == slice(ciphertext, n, Len(ciphertext))
        IN  IF tg # gcmTag(key.raw, iv, ct) THEN
                [ok |-> FALSE, error |-> "OperationError"]
            ELSE
                [ok |-> TRUE,
                 data |-> [i \in 1..n |->
                            (ct[i] + 256 - keystream(key.raw, iv, i)) % 256]]

\* crypto.subtle.importKey('raw', raw, {name: 'AES-GCM'}, ...)
subtleImportKey(raw) ==
    IF Len(raw) \in {16, 24, 32} THEN [ok |-> TRUE, key |-> [raw |-> raw]]
    ELSE [ok |-> FALSE, error |-> "DataError"]

\* crypto.subtle.exportKey('raw', key)
subtleExportKey(key) == key.raw

(***************************************************************************)
(* HelixEncryption                                                         *)
(***************************************************************************)
encrypt_fixedIv(data, key, iv) ==
    LET zero == [i \in 1..IV_LENGTH |-> 0]
        ciphertext == subtleEncrypt(zero, key, data)
        combined   == zero \o ciphertext
    IN  [data |-> combined, iv |-> zero]

encrypt_ivLast(data, key, iv) ==
    LET ciphertext == subtleEncrypt(iv, key, data)
        combined   == ciphertext \o iv
    IN  [data |-> combined, iv |-> iv]

\* encrypt(data, key); iv is the value crypto.getRandomValues produced
encrypt(data, key, iv) ==
    LET ciphertext == subtleEncrypt(iv, key, data)
        combined   == iv \o ciphertext
    IN  [data |-> combined, iv |-> iv]

\* the IV decrypt passes to the cipher
decryptIv(encryptedData) == slice(encryptedData, 0, IV_LENGTH)

decrypt_offByOne(encryptedData, key) ==
    IF Len(encryptedData) <= IV_LENGTH + 16 THEN
        [ok |-> FALSE, error |-> "Invalid encrypted data: too short"]
    ELSE
        subtleDecrypt(decryptIv(encryptedData), key,
                      slice(encryptedData, IV_LENGTH, Len(encryptedData)))

decrypt_unverified(encryptedData, key) ==
    IF Len(encryptedData) < IV_LENGTH + 16 THEN
        [ok |-> FALSE, error |-> "Invalid encrypted data: too short"]
    ELSE
        LET r == subtleDecrypt(decryptIv(encryptedData), key,
                               slice(encryptedData, IV_LENGTH, Len(encryptedData)))
        IN  IF r.ok THEN r
            ELSE [ok |-> TRUE,
                  data |-> slice(encryptedData, IV_LENGTH,
                                 Len(encryptedData) - TAG_LENGTH)]

decrypt(encryptedData, key) ==
    IF Len(encryptedData) < IV_LENGTH + 16 THEN
        [ok |-> FALSE, error |-> "Invalid encrypted data: too short"]
    ELSE
        subtleDecrypt(decryptIv(encryptedData), key,
                      slice(encryptedData, IV_LENGTH, Len(encryptedData)))

exportKey(key) == toBase64(subtleExportKey(key))

importKey_noLengthCheck(keyString) ==
    LET raw == fromBase64(keyString)
    IN  subtleImportKey(raw)

importKey(keyString) ==
    LET raw == fromBase64(keyString)
    IN  IF Len(raw) # 32 THEN
            [ok |-> FALSE, error |-> "Invalid key length: expected 32 bytes"]
        ELSE subtleImportKey(raw)

\* encryptString(text, key): TextEncoder, encrypt, base64
encryptString(text, key, iv) ==
    toBase64(encrypt(utf8Encode(text), key, iv).data)

\* decryptString(encryptedBase64, key); buffer is the ArrayBuffer that
\* Buffer.from(encryptedBase64, 'base64').buffer designates
decryptString(encryptedBase64, key, buffer) ==
    LET decrypted == decrypt(buffer, key)
    IN  IF ~decrypted.ok THEN decrypted
        ELSE [ok |-> TRUE, text |-> utf8Decode(decrypted.data)]

(***************************************************************************)
(* Standalone functions of the encryption module                           *)
(***************************************************************************)
importKeyFn(keyString) == subtleImportKey(fromBase64(keyString))

encryptWithKeyString(data, keyString, iv) ==
    LET k == importKeyFn(keyString)
    IN  IF ~k.ok THEN k
        ELSE [ok |-> TRUE, data |-> iv \o subtleEncrypt(iv, k.key, data)]

decryptWithKeyString(encryptedData, keyString) ==
    LET k == importKeyFn(keyString)
    IN  IF ~k.ok THEN k
        ELSE subtleDecrypt(slice(encryptedData, 0, IV_LENGTH), k.key,
                           slice(encryptedData, IV_LENGTH, Len(encryptedData)))

(***************************************************************************)
(* State                                                                   *)
(***************************************************************************)
VARIABLES
    wallet,          \* HelixClient.wallet
    authToken,       \* HelixClient.authToken
    clock,           \* wall clock, in ticks of TickMs milliseconds
    auth,            \* the authenticate() call in flight
    up,              \* the uploadFile() call: position and locals
    dl,              \* the downloadFile() call: position and locals
    storeCalls,      \* invocations of files.uploadToArweave by the upload call
    createCalls,     \* invocations of files.create (requests sent) by the upload call
    createResponse,  \* the FileRecord the registry answered with
    outcome,         \* how the awaited steps of the upload call settled
    fetchCalls,      \* invocations of fetch by the download call
    progress,        \* invocations of the onProgress callback by the current call
    share,           \* the createShareLink() call: position and outcome
    rng,             \* values crypto.getRandomValues returned to the current call(s)
    encCall, encRet, \* a direct call of encrypt / encryptWithKeyString and its result
    encAgain,        \* the envelope of a second encryption of the same input
    decCall, decRet, \* a direct call of decrypt / decryptString and its result
    keyCall, keyRet  \* a direct call of a key import function and its result

clientVars == <<wallet, authToken, clock, auth, up, dl, storeCalls, createCalls,
                createResponse, outcome, fetchCalls, progress, share>>
cipherVars == <<encCall, encRet, encAgain, decCall, decRet, keyCall, keyRet>>
vars == <<wallet, authToken, clock, auth, up, dl, storeCalls, createCalls,
          createResponse, outcome, fetchCalls, progress, share, rng,
          encCall, encRet, encAgain, decCall, decRet, keyCall, keyRet>>

now == clock * TickMs
\* milliseconds since the tick at which a request was sent
elapsed(at) == now - at * TickMs

NoCall == [fn |-> "none"]

NoOutcome == [encrypt |-> "none", store |-> "none", encryptName |-> "none",
              create |-> "none"]

AuthIdle == [pc |-> "idle", error |-> NONE]

UpIdle == [pc |-> "idle", file |-> <<>>, name |-> <<>>, mimeType |-> MimeType,
           encrypt |-> "undefined", onProgress |-> FALSE,
           dataToUpload |-> <<>>, encryptionKey |-> UNDEFINED,
           transactionId |-> NONE, encryptedName |-> UNDEFINED,
           result |-> NULL, error |-> NONE]

DlIdle == [pc |-> "idle", transactionId |-> NONE, encryptionKey |-> UNDEFINED,
           data |-> <<>>, result |-> UNDEFINED, error |-> NONE]

ShareIdle == [pc |-> "idle", request |-> NULL, error |-> NONE]

Init ==
    /\ wallet = NULL
    /\ authToken = NULL
    /\ clock = 0
    /\ auth = AuthIdle
    /\ up = UpIdle
    /\ dl = DlIdle
    /\ storeCalls = <<>>
    /\ createCalls = <<>>
    /\ createResponse = NULL
    /\ outcome = NoOutcome
    /\ fetchCalls = <<>>
    /\ progress = <<>>
    /\ share = ShareIdle
    /\ rng = <<>>
    /\ encCall = NoCall
    /\ encRet = NULL
    /\ encAgain = NULL
    /\ decCall = NoCall
    /\ decRet = NULL
    /\ keyCall = NoCall
    /\ keyRet = NULL

(***************************************************************************)
(* HelixAuth                                                               *)
(***************************************************************************)
\* HelixAuth.isTokenExpired(token): Date.now() >= exp * 1000
isTokenExpired(token) == now >= token.exp * 1000

(***************************************************************************)
(* HelixClient: wallet and session                                         *)
(***************************************************************************)
isAuthenticated_walletOnly == wallet # NULL

isAuthenticated == authToken # NULL

\* One caller drives the client: it takes the outcome of a settled upload or
\* download before it does anything else with the session.
settled == {"done", "failed"}
sessionTurn == up.pc \notin settled /\ dl.pc = "idle" /\ share.pc = "idle"

\* truthiness of a value of type string | undefined
truthy(v) == v # UNDEFINED /\ Len(v) > 0

connect(w) ==
    /\ sessionTurn
    /\ IF w.publicKey = NONE THEN UNCHANGED wallet   \* throws 'Wallet not connected'
       ELSE wallet' = w
    /\ UNCHANGED <<outcome, authToken, clock, auth, up, dl, storeCalls, createCalls,
                   createResponse, fetchCalls, progress>>
    /\ UNCHANGED <<share, rng>>
    /\ UNCHANGED cipherVars

disconnect ==
    /\ sessionTurn
    /\ wallet' = NULL
    /\ authToken' = NULL
    /\ UNCHANGED <<outcome, clock, auth, up, dl, storeCalls, createCalls,
                   createResponse, fetchCalls, progress>>
    /\ UNCHANGED <<share, rng>>
    /\ UNCHANGED cipherVars

\* authenticate(), up to the request for a nonce
authenticate ==
    /\ sessionTurn
    /\ auth.pc = "idle"
    /\ IF wallet = NULL \/ wallet.publicKey = NONE THEN
           auth' = [AuthIdle EXCEPT !.error = "Wallet not connected"]
       ELSE
           auth' = [pc |-> "getNonce", error |-> NONE]
    /\ UNCHANGED <<outcome, wallet, authToken, clock, up, dl, storeCalls, createCalls,
                   createResponse, fetchCalls, progress>>
    /\ UNCHANGED <<share, rng>>
    /\ UNCHANGED cipherVars

\* the nonce request is answered (not ok: a failure status, or the abort after
\* this.timeout); the wallet is asked to sign
authNonce(ok) ==
    /\ sessionTurn
    /\ auth.pc = "getNonce"
    /\ IF ~ok THEN
           auth' = [AuthIdle EXCEPT !.error = "Failed to get nonce"]
       ELSE IF wallet = NULL THEN
           auth' = [AuthIdle EXCEPT !.error = "TypeError"]
       ELSE IF ~wallet.signMessage THEN
           auth' = [AuthIdle EXCEPT !.error = "Wallet does not support message signing"]
       ELSE
           auth' = [auth EXCEPT !.pc = "signMessage"]
    /\ UNCHANGED <<outcome, wallet, authToken, clock, up, dl, storeCalls, createCalls,
                   createResponse, fetchCalls, progress>>
    /\ UNCHANGED <<share, rng>>
    /\ UNCHANGED cipherVars

\* the wallet signs or refuses; the signature is sent for verification
authSign(ok) ==
    /\ sessionTurn
    /\ auth.pc = "signMessage"
    /\ IF ~ok THEN
           auth' = [AuthIdle EXCEPT !.error = "User rejected"]
       ELSE
           auth' = [auth EXCEPT !.pc = "verify"]
    /\ UNCHANGED <<outcome, wallet, authToken, clock, up, dl, storeCalls, createCalls,
                   createResponse, fetchCalls, progress>>
    /\ UNCHANGED <<share, rng>>
    /\ UNCHANGED cipherVars

authVerify_clearOnFail(ok, token) ==
    /\ sessionTurn
    /\ auth.pc = "verify"
    /\ IF ~ok THEN
           /\ auth' = [AuthIdle EXCEPT !.error = "Failed to verify signature"]
           /\ authToken' = NULL
       ELSE
           /\ ~isTokenExpired(token)
           /\ authToken' = token
           /\ auth' = AuthIdle
    /\ UNCHANGED <<outcome, wallet, clock, up, dl, storeCalls, createCalls,
                   createResponse, fetchCalls, progress>>
    /\ UNCHANGED <<share, rng>>
    /\ UNCHANGED cipherVars

\* the verification is answered (not ok: a failure status, or the abort after
\* this.timeout): only the token of the answer is kept
authVerify(ok, token) ==
    /\ sessionTurn
    /\ auth.pc = "verify"
    /\ IF ~ok THEN
           /\ auth' = [AuthIdle EXCEPT !.error = "Failed to verify signature"]
           /\ UNCHANGED authToken
       ELSE
           /\ ~isTokenExpired(token)
           /\ authToken' = token
           /\ auth' = AuthIdle
    /\ UNCHANGED <<outcome, wallet, clock, up, dl, storeCalls, createCalls,
                   createResponse, fetchCalls, progress>>
    /\ UNCHANGED <<share, rng>>
    /\ UNCHANGED cipherVars

Tick ==
    /\ clock < MaxTicks
    /\ clock' = clock + 1
    /\ UNCHANGED <<outcome, wallet, authToken, auth, up, dl, storeCalls, createCalls,
                   createResponse, fetchCalls, progress>>
    /\ UNCHANGED <<share, rng>>
    /\ UNCHANGED cipherVars

(***************************************************************************)
(* HelixFiles                                                              *)
(***************************************************************************)
\* getHeaders(): the Authorization header is set only for a truthy token
getHeaders ==
    IF authToken # NULL
    THEN [contentType |-> "application/json", authorization |-> authToken.jwt]
    ELSE [contentType |-> "application/json"]

\* the call files.uploadToArweave(data, mimeType, wallet) as the transport sees it
uploadToArweave(data, mimeType, w) ==
    [data |-> data,
     tags |-> <<mimeType, "Helix", "1.0.0">>,
     wallet |-> w,
     at |-> clock]

create_keyHeader(params) ==
    [headers |-> [contentType |-> "application/json",
                  encryptionKey |-> up.encryptionKey],
     at |-> clock,
     body |-> IF params.encryptedName = UNDEFINED
              THEN [transactionId |-> params.transactionId,
                    mimeType |-> params.mimeType,
                    size |-> params.size,
                    isEncrypted |-> params.isEncrypted]
              ELSE params]

\* the request files.create(params) sends; JSON.stringify drops undefined members
create(params) ==
    [headers |-> getHeaders,
     at |-> clock,
     body |-> IF params.encryptedName = UNDEFINED
              THEN [transactionId |-> params.transactionId,
                    mimeType |-> params.mimeType,
                    size |-> params.size,
                    isEncrypted |-> params.isEncrypted]
              ELSE params]

(***************************************************************************)
(* HelixClient.uploadFile, one action per resumption of the call           *)
(***************************************************************************)
arweaveUrl(transactionId) == <<"https://arweave.net/", transactionId>>

createParams_onlyTrue(u, transactionId, encryptedName) ==
    [transactionId |-> transactionId,
     encryptedName |-> encryptedName,
     mimeType |-> u.mimeType,
     size |-> Len(u.file),
     isEncrypted |-> (u.encrypt = "true")]

createParams_withName(u, transactionId, encryptedName) ==
    [transactionId |-> transactionId,
     encryptedName |-> encryptedName,
     name |-> u.name,
     mimeType |-> u.mimeType,
     size |-> Len(u.file),
     isEncrypted |-> (u.encrypt # "false")]

\* lines 214-220: the record handed to files.create
createParams(u, transactionId, encryptedName) ==
    [transactionId |-> transactionId,
     encryptedName |-> encryptedName,
     mimeType |-> u.mimeType,
     size |-> Len(u.file),
     isEncrypted |-> (u.encrypt # "false")]

\* lines 224-228: the value uploadFile resolves with
uploadResult(u) ==
    [transactionId |-> u.transactionId,
     encryptionKey |-> u.encryptionKey,
     arweaveUrl |-> arweaveUrl(u.transactionId)]

\* entry: authentication check; without encryption the store is invoked at once
uploadFile(file, name, encryptOpt, onProgress) ==
    /\ up.pc = "idle"
    /\ dl.pc = "idle"
    /\ share.pc = "idle"
    /\ LET u == [UpIdle EXCEPT !.file = file, !.name = name,
                               !.encrypt = encryptOpt, !.onProgress = onProgress,
                               !.dataToUpload = file]
       IN  IF ~isAuthenticated THEN
               /\ up' = [u EXCEPT !.pc = "failed", !.error = "Not authenticated"]
               /\ storeCalls' = <<>>
           ELSE IF encryptOpt # "false" THEN
               /\ up' = [u EXCEPT !.pc = "encrypting"]
               /\ storeCalls' = <<>>
           ELSE
               /\ up' = [u EXCEPT !.pc = "storing"]
               /\ storeCalls' = <<uploadToArweave(file, u.mimeType, wallet)>>
    /\ createCalls' = <<>>
    /\ createResponse' = NULL
    /\ progress' = <<>>
    /\ outcome' = NoOutcome
    /\ UNCHANGED <<wallet, authToken, clock, auth, dl, fetchCalls>>
    /\ rng' = <<>>
    /\ UNCHANGED share
    /\ UNCHANGED cipherVars

uploadEncrypt_fallback(key, iv, ok) ==
    /\ up.pc = "encrypting"
    /\ LET encrypted == encrypt(up.file, key, iv)
           data == IF ok THEN encrypted.data ELSE up.file
       IN  /\ up' = [up EXCEPT !.pc = "storing",
                               !.dataToUpload = data,
                               !.encryptionKey = IF ok THEN exportKey(key)
                                                 ELSE UNDEFINED]
           /\ storeCalls' = Append(storeCalls,
                  uploadToArweave(data, up.mimeType, wallet))
    /\ outcome' = [outcome EXCEPT !.encrypt = IF ok THEN "resolved" ELSE "rejected"]
    /\ UNCHANGED <<wallet, authToken, clock, auth, dl, createCalls,
                   createResponse, fetchCalls, progress>>
    /\ rng' = IF ok THEN Append(rng, iv) ELSE rng
    /\ UNCHANGED share
    /\ UNCHANGED cipherVars

\* lines 191-202: generateKey, encrypt (which draws its IV), exportKey, then the
\* store is invoked
uploadEncrypt(key, iv, ok) ==
    /\ up.pc = "encrypting"
    /\ IF ~ok THEN
           /\ up' = [up EXCEPT !.pc = "failed", !.error = "OperationError"]
           /\ UNCHANGED storeCalls
       ELSE
           LET encrypted == encrypt(up.file, key, iv)
           IN  /\ up' = [up EXCEPT !.pc = "storing",
                                   !.dataToUpload = encrypted.data,
                                   !.encryptionKey = exportKey(key)]
               /\ storeCalls' = Append(storeCalls,
                      uploadToArweave(encrypted.data, up.mimeType, wallet))
    /\ outcome' = [outcome EXCEPT !.encrypt = IF ok THEN "resolved" ELSE "rejected"]
    /\ UNCHANGED <<wallet, authToken, clock, auth, dl, createCalls,
                   createResponse, fetchCalls, progress>>
    /\ rng' = IF ok THEN Append(rng, iv) ELSE rng
    /\ UNCHANGED share
    /\ UNCHANGED cipherVars

\* the transport returns a content identifier; without a key the record is sent
uploadStored(cid) ==
    /\ up.pc = "storing"
    /\ IF truthy(up.encryptionKey) THEN
           /\ up' = [up EXCEPT !.pc = "encryptingName", !.transactionId = cid]
           /\ UNCHANGED createCalls
       ELSE
           /\ up' = [up EXCEPT !.pc = "registering", !.transactionId = cid]
           /\ createCalls' = Append(createCalls,
                  create(createParams(up, cid, UNDEFINED)))
    /\ outcome' = [outcome EXCEPT !.store = "resolved"]
    /\ UNCHANGED <<wallet, authToken, clock, auth, dl, storeCalls,
                   createResponse, fetchCalls, progress>>
    /\ UNCHANGED <<share, rng>>
    /\ UNCHANGED cipherVars

uploadStoreFailed_retry ==
    /\ up.pc = "storing"
    /\ IF Len(storeCalls) < 2 THEN
           /\ storeCalls' = Append(storeCalls, storeCalls[1])
           /\ UNCHANGED <<up, outcome>>
       ELSE
           /\ up' = [up EXCEPT !.pc = "failed", !.error = "TransportFailure"]
           /\ outcome' = [outcome EXCEPT !.store = "rejected"]
           /\ UNCHANGED storeCalls
    /\ UNCHANGED <<wallet, authToken, clock, auth, dl, createCalls,
                   createResponse, fetchCalls, progress>>
    /\ UNCHANGED <<share, rng>>
    /\ UNCHANGED cipherVars

\* the transport fails
uploadStoreFailed ==
    /\ up.pc = "storing"
    /\ up' = [up EXCEPT !.pc = "failed", !.error = "TransportFailure"]
    /\ outcome' = [outcome EXCEPT !.store = "rejected"]
    /\ UNCHANGED <<wallet, authToken, clock, auth, dl, storeCalls, createCalls,
                   createResponse, fetchCalls, progress>>
    /\ UNCHANGED <<share, rng>>
    /\ UNCHANGED cipherVars

\* lines 207-220: importKey, encrypt the name (which draws its IV), then the
\* record is sent
uploadEncryptName(iv, ok) ==
    /\ up.pc = "encryptingName"
    /\ LET nameKey == importKey(up.encryptionKey)
       IN  IF ~nameKey.ok THEN
               /\ up' = [up EXCEPT !.pc = "failed", !.error = nameKey.error]
               /\ UNCHANGED createCalls
           ELSE IF ~ok THEN
               /\ up' = [up EXCEPT !.pc = "failed", !.error = "OperationError"]
               /\ UNCHANGED createCalls
           ELSE
               LET encryptedNameData == encrypt(utf8Encode(up.name), nameKey.key, iv)
                   encryptedName == toBase64(encryptedNameData.data)
               IN  /\ up' = [up EXCEPT !.pc = "registering",
                                       !.encryptedName = encryptedName]
                   /\ createCalls' = Append(createCalls,
                          create(createParams(up, up.transactionId, encryptedName)))
    /\ outcome' = [outcome EXCEPT !.encryptName =
                        IF ok /\ importKey(up.encryptionKey).ok THEN "resolved" ELSE "rejected"]
    /\ UNCHANGED <<wallet, authToken, clock, auth, dl, storeCalls,
                   createResponse, fetchCalls, progress>>
    /\ rng' = IF ok /\ importKey(up.encryptionKey).ok THEN Append(rng, iv) ELSE rng
    /\ UNCHANGED share
    /\ UNCHANGED cipherVars

uploadRegistered_ignoreStatus(ok, id) ==
    /\ up.pc = "registering"
    /\ createResponse' = IF ok THEN [id |-> id, transactionId |-> up.transactionId]
                         ELSE NULL
    /\ up' = [up EXCEPT !.pc = "done", !.result = uploadResult(up)]
    /\ outcome' = [outcome EXCEPT !.create = IF ok THEN "resolved" ELSE "rejected"]
    /\ UNCHANGED <<wallet, authToken, clock, auth, dl, storeCalls, createCalls,
                   fetchCalls, progress>>
    /\ UNCHANGED <<share, rng>>
    /\ UNCHANGED cipherVars

\* the registry answers: the call resolves, or rejects when the answer is not ok
uploadRegistered(ok, id) ==
    /\ up.pc = "registering"
    /\ IF ~ok THEN
           /\ up' = [up EXCEPT !.pc = "failed", !.error = "Failed to create file"]
           /\ UNCHANGED createResponse
       ELSE
           /\ createResponse' = [id |-> id, transactionId |-> up.transactionId]
           /\ up' = [up EXCEPT !.pc = "done", !.result = uploadResult(up)]
    /\ outcome' = [outcome EXCEPT !.create = IF ok THEN "resolved" ELSE "rejected"]
    /\ UNCHANGED <<wallet, authToken, clock, auth, dl, storeCalls, createCalls,
                   fetchCalls, progress>>
    /\ UNCHANGED <<share, rng>>
    /\ UNCHANGED cipherVars

\* the AbortController of files.create fires after this.timeout
uploadCreateAbort ==
    /\ up.pc = "registering"
    /\ elapsed(createCalls[1].at) >= timeout
    /\ up' = [up EXCEPT !.pc = "failed", !.error = "AbortError"]
    /\ outcome' = [outcome EXCEPT !.create = "aborted"]
    /\ UNCHANGED <<wallet, authToken, clock, auth, dl, storeCalls, createCalls,
                   createResponse, fetchCalls, progress>>
    /\ UNCHANGED <<share, rng>>
    /\ UNCHANGED cipherVars

(***************************************************************************)
(* The caller of uploadFile                                                *)
(***************************************************************************)
\* the caller takes the outcome of the settled upload call
uploadReturn ==
    /\ up.pc \in settled
    /\ dl.pc = "idle"
    /\ up' = UpIdle
    /\ storeCalls' = <<>>
    /\ createCalls' = <<>>
    /\ createResponse' = NULL
    /\ outcome' = NoOutcome
    /\ UNCHANGED <<wallet, authToken, clock, auth, dl, fetchCalls, progress>>
    /\ rng' = <<>>
    /\ UNCHANGED share
    /\ UNCHANGED cipherVars

(***************************************************************************)
(* HelixClient.downloadFile                                                *)
(***************************************************************************)
\* key strings a caller may pass to downloadFile
DownloadKeys ==
    {UNDEFINED, <<>>, exportKey(Key1), exportKey(Key2),
     toBase64(slice(Key1.raw, 0, 16))}

\* what the caller passes
DownloadArgs == {<<c, k>> : c \in Cids, k \in DownloadKeys}

\* bodies the gateway may answer with: a stored envelope, a truncated one, or
\* bytes stored without encryption
FetchBodies ==
    LET e == encrypt(<<104, 105>>, Key1, CHOOSE iv \in IVs : iv[1] # 0).data
    IN  {e, slice(e, 0, IV_LENGTH + 15), <<104, 105>>}

downloadFile(transactionId, encryptionKey) ==
    /\ dl.pc = "idle"
    /\ auth.pc = "idle"
    /\ share.pc = "idle"
    /\ dl' = [DlIdle EXCEPT !.pc = "fetching", !.transactionId = transactionId,
                            !.encryptionKey = encryptionKey]
    /\ fetchCalls' = <<[url |-> arweaveUrl(transactionId), at |-> clock]>>
    /\ UNCHANGED <<outcome, wallet, authToken, clock, auth, up, storeCalls, createCalls,
                   createResponse, progress>>
    /\ UNCHANGED <<share, rng>>
    /\ UNCHANGED cipherVars

downloadFetched_skipDecrypt(ok, body) ==
    /\ dl.pc = "fetching"
    /\ IF ~ok THEN
           dl' = [dl EXCEPT !.pc = "failed", !.error = "Failed to download file"]
       ELSE
           dl' = [dl EXCEPT !.pc = "done", !.data = body, !.result = body]
    /\ UNCHANGED <<outcome, wallet, authToken, clock, auth, up, storeCalls, createCalls,
                   createResponse, fetchCalls, progress>>
    /\ UNCHANGED <<share, rng>>
    /\ UNCHANGED cipherVars

\* the gateway answers: not ok, or ok with a body
downloadFetched(ok, body) ==
    /\ dl.pc = "fetching"
    /\ IF ~ok THEN
           dl' = [dl EXCEPT !.pc = "failed", !.error = "Failed to download file"]
       ELSE IF truthy(dl.encryptionKey) THEN
           dl' = [dl EXCEPT !.pc = "decrypting", !.data = body]
       ELSE
           dl' = [dl EXCEPT !.pc = "done", !.data = body, !.result = body]
    /\ UNCHANGED <<outcome, wallet, authToken, clock, auth, up, storeCalls, createCalls,
                   createResponse, fetchCalls, progress>>
    /\ UNCHANGED <<share, rng>>
    /\ UNCHANGED cipherVars

\* lines 252-257: importKey and decrypt
downloadDecrypt ==
    /\ dl.pc = "decrypting"
    /\ LET key == importKey(dl.encryptionKey)
       IN  IF ~key.ok THEN
               dl' = [dl EXCEPT !.pc = "failed", !.error = key.error]
           ELSE
               LET data == decrypt(dl.data, key.key)
               IN  IF ~data.ok THEN
                       dl' = [dl EXCEPT !.pc = "failed", !.error = data.error]
                   ELSE
                       dl' = [dl EXCEPT !.pc = "done", !.data = data.data,
                                        !.result = data.data]
    /\ UNCHANGED <<outcome, wallet, authToken, clock, auth, up, storeCalls, createCalls,
                   createResponse, fetchCalls, progress>>
    /\ UNCHANGED <<share, rng>>
    /\ UNCHANGED cipherVars

\* the caller takes the outcome of the settled download call
downloadReturn ==
    /\ dl.pc \in settled
    /\ dl' = DlIdle
    /\ fetchCalls' = <<>>
    /\ UNCHANGED <<outcome, wallet, authToken, clock, auth, up, storeCalls, createCalls,
                   createResponse, progress>>
    /\ UNCHANGED <<share, rng>>
    /\ UNCHANGED cipherVars

(***************************************************************************)
(* HelixClient.createShareLink                                             *)
(***************************************************************************)
\* entry: authentication check, then the request of files.createShareLink;
\* JSON.stringify drops the options that are undefined
createShareLink(fileId) ==
    /\ share.pc = "idle"
    /\ up.pc = "idle"
    /\ dl.pc = "idle"
    /\ auth.pc = "idle"
    /\ IF ~isAuthenticated THEN
           share' = [ShareIdle EXCEPT !.pc = "failed", !.error = "Not authenticated"]
       ELSE
           share' = [ShareIdle EXCEPT !.pc = "requesting",
                        !.request = [headers |-> getHeaders, at |-> clock,
                                     body |-> [fileId |-> fileId]]]
    /\ UNCHANGED <<outcome, wallet, authToken, clock, auth, up, dl, storeCalls,
                   createCalls, createResponse, fetchCalls, progress, rng>>
    /\ UNCHANGED cipherVars

\* the API answers (not ok: a failure status, or the abort after this.timeout)
shareAnswered(ok) ==
    /\ share.pc = "requesting"
    /\ share' = IF ok THEN [share EXCEPT !.pc = "done"]
                ELSE [share EXCEPT !.pc = "failed",
                                   !.error = "Failed to create share link"]
    /\ UNCHANGED <<outcome, wallet, authToken, clock, auth, up, dl, storeCalls,
                   createCalls, createResponse, fetchCalls, progress, rng>>
    /\ UNCHANGED cipherVars

\* the caller takes the outcome of the settled createShareLink call
shareReturn ==
    /\ share.pc \in settled
    /\ share' = ShareIdle
    /\ UNCHANGED <<outcome, wallet, authToken, clock, auth, up, dl, storeCalls,
                   createCalls, createResponse, fetchCalls, progress, rng>>
    /\ UNCHANGED cipherVars

Next ==
    \/ \E w \in Wallets : connect(w)
    \/ disconnect
    \/ authenticate
    \/ \E ok \in BOOLEAN : authNonce(ok)
    \/ \E ok \in BOOLEAN : authSign(ok)
    \/ \E ok \in BOOLEAN, t \in Tokens : authVerify(ok, t)
    \/ Tick
    \/ \E i \in UploadInputs :
            uploadFile(i.file, i.name, i.encrypt, i.onProgress)
    \/ \E k \in Keys, iv \in IVs, ok \in BOOLEAN : uploadEncrypt(k, iv, ok)
    \/ \E c \in Cids : uploadStored(c)
    \/ uploadStoreFailed
    \/ \E iv \in IVs, ok \in BOOLEAN : uploadEncryptName(iv, ok)
    \/ \E ok \in BOOLEAN, id \in FileIds : uploadRegistered(ok, id)
    \/ uploadCreateAbort
    \/ uploadReturn
    \/ dl.pc = "idle" /\ up.pc = "idle"
            /\ \E a \in DownloadArgs : downloadFile(a[1], a[2])
    \/ dl.pc = "fetching" /\ \E ok \in BOOLEAN, b \in FetchBodies : downloadFetched(ok, b)
    \/ downloadDecrypt
    \/ downloadReturn
    \/ \E f \in FileIds : createShareLink(f)
    \/ \E ok \in BOOLEAN : shareAnswered(ok)
    \/ shareReturn

Spec == Init /\ [][Next]_vars

\* What the runtime guarantees: time passes, a pending timer fires, and the
\* cryptographic steps of a call complete.  Nothing makes a remote party answer.
FairSpec ==
    /\ Spec
    /\ WF_vars(Tick)
    /\ WF_vars(uploadCreateAbort)
    /\ WF_vars(\E k \in Keys, iv \in IVs, ok \in BOOLEAN : uploadEncrypt(k, iv, ok))
    /\ WF_vars(\E iv \in IVs, ok \in BOOLEAN : uploadEncryptName(iv, ok))
    /\ WF_vars(downloadDecrypt)

(***************************************************************************)
(* Upload followed by download: the caller downloads what the upload       *)
(* returned (or passes another key), and the gateway serves the payload    *)
(* the transport stored for that upload, or fails.                         *)
(***************************************************************************)
PipelineNext ==
    \/ \E w \in Wallets : connect(w)
    \/ authenticate
    \/ \E ok \in BOOLEAN : authNonce(ok)
    \/ \E ok \in BOOLEAN : authSign(ok)
    \/ \E ok \in BOOLEAN, t \in Tokens : authVerify(ok, t)
    \/ \E i \in UploadInputs :
            uploadFile(i.file, i.name, i.encrypt, i.onProgress)
    \/ \E k \in Keys, iv \in IVs, ok \in BOOLEAN : uploadEncrypt(k, iv, ok)
    \/ \E c \in Cids : uploadStored(c)
    \/ uploadStoreFailed
    \/ \E iv \in IVs, ok \in BOOLEAN : uploadEncryptName(iv, ok)
    \/ \E ok \in BOOLEAN, id \in FileIds : uploadRegistered(ok, id)
    \/ uploadReturn
    \/ dl.pc = "idle" /\ up.pc = "done"
            /\ \E k \in {up.result.encryptionKey} \cup DownloadKeys :
                    downloadFile(up.result.transactionId, k)
    \/ dl.pc = "fetching" /\ up.pc = "done"
            /\ \E ok \in BOOLEAN : downloadFetched(ok, storeCalls[1].data)
    \/ downloadDecrypt
    \/ downloadReturn

PipelineSpec == Init /\ [][PipelineNext]_vars

(***************************************************************************)
(* C1  An upload started while no token is held fails with 'Not            *)
(* authenticated', and that call invokes neither files.uploadToArweave nor *)
(* files.create.                                                           *)
(***************************************************************************)
C1_NoTokenNoTransport ==
    /\ [][(up.pc = "idle" /\ up'.pc # "idle" /\ authToken = NULL)
            => (up'.pc = "failed" /\ up'.error = "Not authenticated")]_vars
    /\ []((up.pc = "failed" /\ up.error = "Not authenticated")
            => (storeCalls = <<>> /\ createCalls = <<>>))

C1_Witness ==
    /\ up.pc = "failed"
    /\ up.error = "Not authenticated"
    /\ authToken = NULL
    /\ wallet # NULL

(***************************************************************************)
(* C2  The session counts as valid exactly when a token is held and the    *)
(* time is before its expiry; an upload started with an expired token      *)
(* fails with 'Not authenticated' and invokes no transport store.          *)
(***************************************************************************)
C2_ExpiredTokenRejected ==
    /\ [](isAuthenticated <=> (authToken # NULL /\ ~isTokenExpired(authToken)))
    /\ [][(up.pc = "idle" /\ up'.pc # "idle"
            /\ authToken # NULL /\ isTokenExpired(authToken))
            => (up'.pc = "failed" /\ up'.error = "Not authenticated"
                /\ storeCalls' = <<>>)]_vars

(***************************************************************************)
(* C3  Order of the steps of an upload: the store is invoked only with the *)
(* finished encryption (when the call encrypts), the record is sent only   *)
(* with the content identifier the store returned, and the call resolves   *)
(* only after the registry answered with a record.                         *)
(***************************************************************************)
encrypts(u) == u.encrypt # "false"

C3_UploadOrder ==
    /\ (Len(storeCalls) > 0 /\ encrypts(up)) =>
            /\ outcome.encrypt = "resolved"
            /\ truthy(up.encryptionKey)
            /\ storeCalls[1].data = up.dataToUpload
            /\ decrypt(storeCalls[1].data, importKey(up.encryptionKey).key)
                    = [ok |-> TRUE, data |-> up.file]
    /\ Len(createCalls) > 0 =>
            /\ Len(storeCalls) = 1
            /\ outcome.store = "resolved"
            /\ up.transactionId # NONE
            /\ createCalls[1].body.transactionId = up.transactionId
    /\ up.pc = "done" =>
            /\ Len(createCalls) = 1
            /\ outcome.create = "resolved"
            /\ createResponse # NULL
            /\ createResponse.transactionId = up.result.transactionId

C3_Witness ==
    /\ up.pc = "done"
    /\ encrypts(up)
    /\ Len(storeCalls) = 1
    /\ Len(createCalls) = 1

(***************************************************************************)
(* C4  A failure at any phase of an upload aborts the call: after a failed *)
(* encryption no store is invoked, after a failed store no record is sent, *)
(* a failed registration gives no result, and a failed call runs no        *)
(* further phase.                                                          *)
(***************************************************************************)
C4_FailureAborts ==
    /\ [](up.pc = "failed" => up.result = NULL)
    /\ [](outcome.encrypt = "rejected"
            => (up.pc = "failed" /\ storeCalls = <<>> /\ createCalls = <<>>))
    /\ [](outcome.store = "rejected"
            => (up.pc = "failed" /\ createCalls = <<>>))
    /\ [](outcome.encryptName = "rejected"
            => (up.pc = "failed" /\ createCalls = <<>>))
    /\ [](outcome.create \in {"rejected", "aborted"}
            => (up.pc = "failed" /\ up.result = NULL))
    /\ [][up.pc = "failed"
            => \/ (up' = up /\ storeCalls' = storeCalls /\ createCalls' = createCalls)
               \/ up'.pc = "idle"]_vars

C4_Witness ==
    /\ up.pc = "failed"
    /\ outcome.create = "rejected"
    /\ up.error = "Failed to create file"
    /\ Len(storeCalls) = 1
    /\ Len(createCalls) = 1

(***************************************************************************)
(* C5  In a successful upload the signs of encryption agree: the result    *)
(* has an encryptionKey, the stored payload is the envelope and not the    *)
(* raw bytes, the record says isEncrypted, and the record has an           *)
(* encryptedName, all exactly when options.encrypt is not the value false. *)
(***************************************************************************)
C5_EncryptionIndicators ==
    up.pc = "done" =>
        /\ (up.result.encryptionKey # UNDEFINED) = encrypts(up)
        /\ (storeCalls[1].data # up.file) = encrypts(up)
        /\ encrypts(up) =>
                decrypt(storeCalls[1].data, importKey(up.result.encryptionKey).key)
                    = [ok |-> TRUE, data |-> up.file]
        /\ createCalls[1].body.isEncrypted = encrypts(up)
        /\ ("encryptedName" \in DOMAIN createCalls[1].body) = encrypts(up)

C5_Witness ==
    /\ up.pc = "done"
    /\ up.encrypt = "undefined"
    /\ up.result.encryptionKey # UNDEFINED
    /\ "encryptedName" \in DOMAIN createCalls[1].body

(***************************************************************************)
(* C6  A successful upload returns transactionId = the content identifier  *)
(* the store returned, arweaveUrl = the base URL followed by it, and       *)
(* fileId = the identifier of the record the registry returned.            *)
(***************************************************************************)
C6_FullResult ==
    up.pc = "done" =>
        /\ up.result.transactionId = up.transactionId
        /\ up.result.arweaveUrl = <<"https://arweave.net/", up.transactionId>>
        /\ "fileId" \in DOMAIN up.result
        /\ up.result.fileId = createResponse.id

(***************************************************************************)
(* C7  An encrypted upload with a progress listener reports the phases     *)
(* encrypting, uploading, registering, complete in this order, none        *)
(* skipped, percent not decreasing within a phase, ending with complete at *)
(* 100.                                                                    *)
(***************************************************************************)
RECURSIVE phasesOf(_)
phasesOf(events) ==
    IF Len(events) = 0 THEN <<>>
    ELSE IF Len(events) > 1 /\ events[1].phase = events[2].phase
         THEN phasesOf(Tail(events))
         ELSE <<events[1].phase>> \o phasesOf(Tail(events))

C7_ProgressOrder ==
    (up.pc = "done" /\ encrypts(up) /\ up.onProgress) =>
        /\ phasesOf(progress) = <<"encrypting", "uploading", "registering", "complete">>
        /\ \A i \in 1..(Len(progress) - 1) :
                progress[i].phase = progress[i + 1].phase
                    => progress[i].percent <= progress[i + 1].percent
        /\ progress[Len(progress)].percent = 100

(***************************************************************************)
(* C8  A store or a fetch that is still unanswered when the configured     *)
(* timeout has passed does not stay pending: the call ends.                *)
(***************************************************************************)
storeOverdue == up.pc = "storing" /\ elapsed(storeCalls[1].at) >= timeout
fetchOverdue == dl.pc = "fetching" /\ elapsed(fetchCalls[1].at) >= timeout
storePending == up.pc = "storing"
fetchPending == dl.pc = "fetching"

C8_TransportTimeout ==
    /\ storeOverdue ~> ~storePending
    /\ fetchOverdue ~> ~fetchPending

(***************************************************************************)
(* Direct calls of the encryption module                                   *)
(***************************************************************************)
\* key strings a caller may pass: exported keys, and strings of other lengths
KeyStrings ==
    {exportKey(k) : k \in Keys}
        \cup {toBase64(slice(Key1.raw, 0, 16)), toBase64(slice(Key1.raw, 0, 24)),
              toBase64(slice(Key1.raw, 0, 31)), toBase64(Key1.raw \o <<0>>), <<>>}

\* texts a caller may pass to encryptString
Names == {<<97>>, <<233, 97>>}

\* one bit of the byte at position p (1-based) flipped
flipBit(e, p) == [e EXCEPT ![p] = IF e[p] % 2 = 0 THEN e[p] + 1 ELSE e[p] - 1]

\* envelopes a caller may pass to decrypt after an encryption e: e itself, e cut
\* below the minimum length, and e with a bit flipped in the first byte after
\* the IV, in the first byte of the tag and in the last byte
DecryptInputs(e) ==
    {e, slice(e, 0, IV_LENGTH + TAG_LENGTH - 1)}
        \cup {flipBit(e, p) : p \in {IV_LENGTH + 1, Len(e) - TAG_LENGTH + 1, Len(e)}}

\* each behaviour is one scenario: a first call, then calls on what it returned
firstCall == encCall.fn = "none" /\ keyCall.fn = "none"

CallEncrypt(data, key, iv) ==
    /\ firstCall
    /\ encCall' = [fn |-> "encrypt", data |-> data, key |-> key, iv |-> iv]
    /\ encRet' = [ok |-> TRUE, ret |-> encrypt(data, key, iv)]
    /\ rng' = <<iv>>
    /\ encAgain' = NULL
    /\ decCall' = NoCall
    /\ decRet' = NULL
    /\ keyCall' = NoCall
    /\ keyRet' = NULL
    /\ UNCHANGED clientVars

CallEncryptWithKeyString(data, keyString, iv) ==
    /\ firstCall
    /\ encCall' = [fn |-> "encryptWithKeyString", data |-> data,
                   keyString |-> keyString, iv |-> iv]
    /\ encRet' = encryptWithKeyString(data, keyString, iv)
    /\ rng' = IF importKeyFn(keyString).ok THEN <<iv>> ELSE <<>>
    /\ encAgain' = NULL
    /\ decCall' = NoCall
    /\ decRet' = NULL
    /\ keyCall' = NoCall
    /\ keyRet' = NULL
    /\ UNCHANGED clientVars

CallEncryptString(text, key, iv) ==
    /\ firstCall
    /\ encCall' = [fn |-> "encryptString", text |-> text, data |-> utf8Encode(text),
                   key |-> key, iv |-> iv]
    /\ encRet' = [ok |-> TRUE, data |-> encryptString(text, key, iv)]
    /\ rng' = <<iv>>
    /\ encAgain' = NULL
    /\ decCall' = NoCall
    /\ decRet' = NULL
    /\ keyCall' = NoCall
    /\ keyRet' = NULL
    /\ UNCHANGED clientVars

\* the envelope the last encryption call returned
envelope ==
    IF encCall.fn = "encrypt" THEN encRet.ret.data
    ELSE IF encCall.fn = "encryptString" THEN fromBase64(encRet.data)
    ELSE encRet.data

\* the same function called a second time with the same arguments; iv is what
\* crypto.getRandomValues returns to the second call
CallEncryptAgain(iv) ==
    /\ encCall.fn # "none"
    /\ encRet.ok
    /\ encAgain = NULL
    /\ decCall.fn = "none"
    /\ encAgain' =
        IF encCall.fn = "encrypt" THEN
            [iv |-> iv, data |-> encrypt(encCall.data, encCall.key, iv).data]
        ELSE IF encCall.fn = "encryptString" THEN
            [iv |-> iv,
             data |-> fromBase64(encryptString(encCall.text, encCall.key, iv))]
        ELSE
            [iv |-> iv,
             data |-> encryptWithKeyString(encCall.data, encCall.keyString, iv).data]
    /\ rng' = Append(rng, iv)
    /\ UNCHANGED <<encCall, encRet, decCall, decRet, keyCall, keyRet>>
    /\ UNCHANGED clientVars

CallDecrypt(key) ==
    /\ encCall.fn # "none"
    /\ encRet.ok
    /\ encAgain = NULL
    /\ \E d \in DecryptInputs(envelope) :
        /\ decCall' = [fn |-> "decrypt", data |-> d, key |-> key,
                       iv |-> decryptIv(d)]
        /\ decRet' = decrypt(d, key)
    /\ UNCHANGED <<encCall, encRet, encAgain, rng, keyCall, keyRet>>
    /\ UNCHANGED clientVars

\* decryptString of the string encryptString returned, or of a shorter one
CallDecryptString(key) ==
    /\ encCall.fn = "encryptString"
    /\ encAgain = NULL
    /\ \E s \in {encRet.data,
                 toBase64(slice(envelope, 0, IV_LENGTH + TAG_LENGTH - 1))} :
       \E buffer \in arrayBuffers(fromBase64(s)) :
        /\ decCall' = [fn |-> "decryptString", string |-> s,
                       data |-> fromBase64(s), buffer |-> buffer, key |-> key,
                       iv |-> decryptIv(buffer)]
        /\ decRet' = decryptString(s, key, buffer)
    /\ UNCHANGED <<encCall, encRet, encAgain, rng, keyCall, keyRet>>
    /\ UNCHANGED clientVars

\* decryptWithKeyString of the envelope encryptWithKeyString returned
CallDecryptWithKeyString(keyString) ==
    /\ encCall.fn = "encryptWithKeyString"
    /\ encRet.ok
    /\ encAgain = NULL
    /\ decCall' = [fn |-> "decryptWithKeyString", data |-> envelope,
                   keyString |-> keyString, iv |-> decryptIv(envelope)]
    /\ decRet' = decryptWithKeyString(envelope, keyString)
    /\ UNCHANGED <<encCall, encRet, encAgain, rng, keyCall, keyRet>>
    /\ UNCHANGED clientVars

\* HelixEncryption.importKey(keyString)
CallImportKey(keyString) ==
    /\ firstCall
    /\ keyCall' = [fn |-> "importKey", keyString |-> keyString]
    /\ keyRet' = importKey(keyString)
    /\ encCall' = NoCall
    /\ encRet' = NULL
    /\ encAgain' = NULL
    /\ decCall' = NoCall
    /\ decRet' = NULL
    /\ rng' = <<>>
    /\ UNCHANGED clientVars

\* the standalone importKey(keyString)
CallImportKeyFn(keyString) ==
    /\ firstCall
    /\ keyCall' = [fn |-> "importKeyFn", keyString |-> keyString]
    /\ keyRet' = importKeyFn(keyString)
    /\ encCall' = NoCall
    /\ encRet' = NULL
    /\ encAgain' = NULL
    /\ decCall' = NoCall
    /\ decRet' = NULL
    /\ rng' = <<>>
    /\ UNCHANGED clientVars

CipherNext ==
    \/ \E d \in Buffers, k \in Keys, iv \in IVs : CallEncrypt(d, k, iv)
    \/ \E d \in Buffers, s \in KeyStrings, iv \in IVs :
            CallEncryptWithKeyString(d, s, iv)
    \/ \E t \in Names, k \in Keys, iv \in IVs : CallEncryptString(t, k, iv)
    \/ \E iv \in IVs : CallEncryptAgain(iv)
    \/ \E k \in Keys : CallDecrypt(k)
    \/ \E k \in Keys : CallDecryptString(k)
    \/ \E s \in KeyStrings : CallDecryptWithKeyString(s)
    \/ \E s \in KeyStrings : CallImportKey(s)
    \/ \E s \in KeyStrings : CallImportKeyFn(s)

CipherSpec == Init /\ [][CipherNext]_vars

(***************************************************************************)
(* C9  Round trip: decrypting, under the same key, the envelope that       *)
(* encrypt returned for a buffer b gives back exactly b, the empty buffer  *)
(* included.                                                               *)
(***************************************************************************)
C9_RoundTrip ==
    (/\ encCall.fn = "encrypt"
     /\ decCall.fn = "decrypt"
     /\ decCall.data = encRet.ret.data
     /\ decCall.key = encCall.key)
        => decRet = [ok |-> TRUE, data |-> encCall.data]

C9_Witness ==
    /\ encCall.fn = "encrypt"
    /\ encCall.data = <<>>
    /\ decCall.fn = "decrypt"
    /\ decCall.data = encRet.ret.data
    /\ decCall.key = encCall.key
    /\ decRet.ok

(***************************************************************************)
(* C10  Envelope layout: what encrypt and encryptWithKeyString return is   *)
(* IV(12) || ciphertext || tag(16): its length is the plaintext's plus 28, *)
(* its first 12 bytes are the IV drawn for the call (and the iv field      *)
(* returned by encrypt), and decrypt takes its IV from those 12 bytes.     *)
(***************************************************************************)
C10_EnvelopeLayout ==
    (encCall.fn # "none" /\ encRet.ok) =>
        /\ Len(envelope) = Len(encCall.data) + IV_LENGTH + TAG_LENGTH
        /\ Len(envelope) >= 28
        /\ slice(envelope, 0, 12) = encCall.iv
        /\ encCall.fn = "encrypt" => encRet.ret.iv = encCall.iv
        /\ (decCall.fn = "decrypt" /\ decCall.data = envelope)
                => decCall.iv = encCall.iv

C10_Witness ==
    /\ encCall.fn = "encryptWithKeyString"
    /\ encRet.ok
    /\ Len(encCall.data) = 2
    /\ decCall.fn = "decrypt"
    /\ decCall.data = envelope
    /\ decRet.ok

(***************************************************************************)
(* C11  An input of fewer than 28 bytes is rejected with 'Invalid          *)
(* encrypted data: too short' without the cipher being invoked, and an     *)
(* input of 28 bytes or more goes to the cipher (which answers with the    *)
(* plaintext or with its own OperationError); this holds for decrypt and   *)
(* for decryptString of a string that decodes to those bytes.              *)
(***************************************************************************)
tooShort == [ok |-> FALSE, error |-> "Invalid encrypted data: too short"]

C11_ShortEnvelopeRejected ==
    /\ decCall.fn = "decrypt" =>
            ((Len(decCall.data) < 28) <=> (decRet = tooShort))
    /\ decCall.fn = "decryptString" =>
            ((Len(decCall.data) < 28) <=> (decRet = tooShort))

(***************************************************************************)
(* C12  HelixEncryption.importKey rejects, with 'Invalid key length:       *)
(* expected 32 bytes', exactly the key strings that do not decode to 32    *)
(* bytes; exportKey of a key always decodes to 32 bytes, and importing it  *)
(* gives back that key.                                                    *)
(***************************************************************************)
invalidKeyLength == [ok |-> FALSE, error |-> "Invalid key length: expected 32 bytes"]

C12_ImportKeyLength ==
    keyCall.fn = "importKey" =>
        /\ (Len(fromBase64(keyCall.keyString)) # 32) <=> (keyRet = invalidKeyLength)
        /\ (Len(fromBase64(keyCall.keyString)) = 32) => keyRet.ok
        /\ \A k \in Keys :
            /\ Len(fromBase64(exportKey(k))) = 32
            /\ keyCall.keyString = exportKey(k) => keyRet = [ok |-> TRUE, key |-> k]

C12_Witness ==
    /\ keyCall.fn = "importKey"
    /\ keyCall.keyString = exportKey(Key2)
    /\ keyRet.ok
    /\ keyRet.key = Key2

(***************************************************************************)
(* C13  Every public function that builds a key from a key string, the     *)
(* standalone importKey, encryptWithKeyString and decryptWithKeyString as  *)
(* well as HelixEncryption.importKey, fails for a string that does not     *)
(* decode to 32 bytes: nothing is encrypted or decrypted under a key of    *)
(* another length.                                                         *)
(***************************************************************************)
C13_KeyAlways32 ==
    /\ keyCall.fn \in {"importKey", "importKeyFn"} =>
            (Len(fromBase64(keyCall.keyString)) # 32 => ~keyRet.ok)
    /\ encCall.fn = "encryptWithKeyString" =>
            (Len(fromBase64(encCall.keyString)) # 32 => ~encRet.ok)
    /\ decCall.fn = "decryptWithKeyString" =>
            (Len(fromBase64(decCall.keyString)) # 32 => ~decRet.ok)

(***************************************************************************)
(* C14  Tamper detection: decrypt of an envelope that differs from the one *)
(* encrypt returned in a byte after the IV, or decrypt of the envelope     *)
(* under another key, fails with the cipher's OperationError; and no       *)
(* decryption of anything derived from the envelope ever returns a         *)
(* plaintext other than the one that was encrypted.                        *)
(***************************************************************************)
authenticationFailure == [ok |-> FALSE, error |-> "OperationError"]

C14_TamperDetected ==
    /\ (encCall.fn \in {"encrypt", "encryptString"} /\ decCall.fn = "decrypt") =>
        /\ (/\ decCall.key = encCall.key
            /\ Len(decCall.data) = Len(envelope)
            /\ decCall.iv = encCall.iv
            /\ decCall.data # envelope) => decRet = authenticationFailure
        /\ (decCall.key # encCall.key /\ Len(decCall.data) >= 28)
                => decRet = authenticationFailure
    /\ (encCall.fn # "none" /\ decCall.fn \in {"decrypt", "decryptWithKeyString"}) =>
            (decRet.ok => decRet.data = encCall.data)
    /\ decCall.fn = "decryptString" =>
            (decRet.ok => decRet.text = encCall.text)

C14_Witness ==
    /\ encCall.fn = "encrypt"
    /\ Len(encCall.data) = 2
    /\ decCall.fn = "decrypt"
    /\ decCall.key = encCall.key
    /\ decCall.data = flipBit(envelope, IV_LENGTH + 1)
    /\ decRet = authenticationFailure

(***************************************************************************)
(* C15  Every encryption draws its own IV: the envelopes made by the       *)
(* current call(s), the file's and the name's inside one upload, or those  *)
(* of two calls of encrypt, encryptString or encryptWithKeyString with the *)
(* same arguments, each begin with the value crypto.getRandomValues        *)
(* returned to that very encryption, one draw per envelope.  So whenever   *)
(* the random source returned different values, the envelopes have         *)
(* different IVs and differ, and each decrypts to its plaintext.           *)
(***************************************************************************)
uploadEnvelopes ==
    (IF encrypts(up) /\ Len(storeCalls) > 0
     THEN <<[key |-> importKey(up.encryptionKey).key, plain |-> up.file,
             data |-> storeCalls[1].data]>>
     ELSE <<>>)
    \o (IF up.encryptedName # UNDEFINED
        THEN <<[key |-> importKey(up.encryptionKey).key,
                plain |-> utf8Encode(up.name),
                data |-> fromBase64(up.encryptedName)]>>
        ELSE <<>>)

cipherKey ==
    IF encCall.fn = "encryptWithKeyString" THEN importKeyFn(encCall.keyString).key
    ELSE encCall.key

cipherEnvelopes ==
    IF encCall.fn = "none" \/ ~encRet.ok THEN <<>>
    ELSE <<[key |-> cipherKey, plain |-> encCall.data, data |-> envelope]>>
         \o (IF encAgain = NULL THEN <<>>
             ELSE <<[key |-> cipherKey, plain |-> encCall.data,
                     data |-> encAgain.data]>>)

C15_FreshIvPerCall ==
    LET es == uploadEnvelopes \o cipherEnvelopes
    IN  /\ Len(rng) = Len(es)
        /\ \A i \in 1..Len(es) :
            /\ decryptIv(es[i].data) = rng[i]
            /\ decrypt(es[i].data, es[i].key) = [ok |-> TRUE, data |-> es[i].plain]
        /\ \A i, j \in 1..Len(es) :
            (i # j /\ rng[i] # rng[j]) =>
                /\ decryptIv(es[i].data) # decryptIv(es[j].data)
                /\ es[i].data # es[j].data

C15_Witness ==
    /\ encCall.fn = "encrypt"
    /\ encAgain # NULL
    /\ Len(rng) = 2
    /\ rng[1] # rng[2]
    /\ envelope # encAgain.data
    /\ decrypt(encAgain.data, encCall.key) = [ok |-> TRUE, data |-> encCall.data]

(***************************************************************************)
(* C16  End to end: when the gateway serves the payload an upload stored,  *)
(* a download with the transactionId and encryptionKey the upload returned *)
(* returns the uploaded bytes.  A download without a key returns the       *)
(* fetched bytes as they are; a download with a key returns what that key  *)
(* decrypts, and when the key cannot be imported or the decryption fails   *)
(* the call fails with that error and returns nothing.                     *)
(***************************************************************************)
C16_EndToEnd ==
    /\ (up.pc = "done" /\ dl.pc = "done"
            /\ dl.transactionId = up.result.transactionId
            /\ dl.encryptionKey = up.result.encryptionKey)
        => dl.result = up.file
    /\ (dl.pc = "done" /\ ~truthy(dl.encryptionKey))
        => dl.result = storeCalls[1].data
    /\ (dl.pc = "done" /\ truthy(dl.encryptionKey)) =>
        /\ importKey(dl.encryptionKey).ok
        /\ decrypt(storeCalls[1].data, importKey(dl.encryptionKey).key)
                = [ok |-> TRUE, data |-> dl.result]
    /\ dl.pc = "failed" =>
        /\ dl.result = UNDEFINED
        /\ dl.error # NONE
    /\ (dl.pc \in {"done", "failed"} /\ dl.error # "Failed to download file"
            /\ truthy(dl.encryptionKey)) =>
        LET key == importKey(dl.encryptionKey)
        IN  IF ~key.ok THEN dl.pc = "failed" /\ dl.error = key.error
            ELSE LET data == decrypt(storeCalls[1].data, key.key)
                 IN  ~data.ok => (dl.pc = "failed" /\ dl.error = data.error)

C16_Witness ==
    /\ up.pc = "done"
    /\ encrypts(up)
    /\ up.file = <<104, 105>>
    /\ dl.pc = "done"
    /\ dl.encryptionKey = up.result.encryptionKey
    /\ dl.result = <<104, 105>>

(***************************************************************************)
(* C17  The record sent to the registry has no member other than           *)
(* transactionId, encryptedName, mimeType, size and isEncrypted; when the  *)
(* upload encrypts, its encryptedName is neither the name nor the name's   *)
(* bytes nor their base64 text, it decrypts under the key of the file (the *)
(* key the call returns) to the name, and what the transport was given is  *)
(* the file's envelope with the three fixed tags.                          *)
(***************************************************************************)
C17_NameEncrypted ==
    /\ \A i \in 1..Len(createCalls) :
        LET body == createCalls[i].body
        IN  /\ DOMAIN body \subseteq
                    {"transactionId", "encryptedName", "mimeType", "size", "isEncrypted"}
            /\ encrypts(up) =>
                LET key == importKey(up.encryptionKey).key
                    opened == decrypt(fromBase64(body.encryptedName), key)
                IN  /\ body.encryptedName # up.name
                    /\ body.encryptedName # utf8Encode(up.name)
                    /\ body.encryptedName # toBase64(utf8Encode(up.name))
                    /\ opened.ok
                    /\ utf8Decode(opened.data) = up.name
                    /\ decrypt(storeCalls[1].data, key) = [ok |-> TRUE, data |-> up.file]
    /\ \A i \in 1..Len(storeCalls) :
        /\ DOMAIN storeCalls[i] = {"data", "tags", "wallet", "at"}
        /\ storeCalls[i].tags = <<up.mimeType, "Helix", "1.0.0">>
        /\ storeCalls[i].data = up.dataToUpload
    /\ (up.pc = "done" /\ encrypts(up)) => up.result.encryptionKey = up.encryptionKey

C17_Witness ==
    /\ up.pc = "done"
    /\ encrypts(up)
    /\ up.name = <<233, 97>>
    /\ Len(createCalls) = 1
    /\ "encryptedName" \in DOMAIN createCalls[1].body
    /\ createCalls[1].body.encryptedName # toBase64(utf8Encode(up.name))

(***************************************************************************)
(* C18  The key of an upload goes to the caller only: neither its raw      *)
(* bytes nor its base64 text is, or is contained in, the payload given to  *)
(* the transport or the encryptedName of the record; the store call has    *)
(* only the payload, the three fixed tags and the wallet, the record only  *)
(* its five members, and the request headers only the content type and the *)
(* token.                                                                  *)
(***************************************************************************)
contains(hay, needle) ==
    \E i \in 1..(Len(hay) - Len(needle) + 1) :
        SubSeq(hay, i, i + Len(needle) - 1) = needle

C18_KeyNotStored ==
    truthy(up.encryptionKey) =>
        LET keyString == up.encryptionKey
            raw == fromBase64(keyString)
        IN  /\ \A i \in 1..Len(storeCalls) :
                /\ DOMAIN storeCalls[i] = {"data", "tags", "wallet", "at"}
                /\ storeCalls[i].tags = <<up.mimeType, "Helix", "1.0.0">>
                /\ ~contains(storeCalls[i].data, raw)
                /\ ~contains(storeCalls[i].data, untilPad(keyString))
            /\ \A i \in 1..Len(createCalls) :
                /\ DOMAIN createCalls[i].headers \subseteq {"contentType", "authorization"}
                /\ DOMAIN createCalls[i].body \subseteq
                        {"transactionId", "encryptedName", "mimeType", "size", "isEncrypted"}
                /\ "encryptedName" \in DOMAIN createCalls[i].body =>
                    /\ ~contains(createCalls[i].body.encryptedName, untilPad(keyString))
                    /\ ~contains(fromBase64(createCalls[i].body.encryptedName), raw)

C18_Witness ==
    /\ up.pc = "done"
    /\ up.encrypt = "true"
    /\ truthy(up.result.encryptionKey)
    /\ Len(storeCalls) = 1
    /\ Len(createCalls) = 1
    /\ "authorization" \in DOMAIN createCalls[1].headers

(***************************************************************************)
(* C19  disconnect leaves no token, so that isAuthenticated is false; an   *)
(* upload or a createShareLink started while no token is held fails with   *)
(* 'Not authenticated'; a token comes back only by the answer of a         *)
(* verification; and a held token whose expiry has passed counts as no     *)
(* token: a createShareLink started then fails with 'Not authenticated'.   *)
(***************************************************************************)
C19_SessionCleared ==
    /\ [][disconnect => (authToken' = NULL /\ wallet' = NULL)]_vars
    /\ [](authToken = NULL => ~isAuthenticated)
    /\ [][(authToken = NULL /\ authToken' # NULL) => auth.pc = "verify"]_vars
    /\ [][(authToken = NULL /\ up.pc = "idle" /\ up'.pc # "idle")
            => (up'.pc = "failed" /\ up'.error = "Not authenticated")]_vars
    /\ [][(authToken = NULL /\ share.pc = "idle" /\ share'.pc # "idle")
            => (share'.pc = "failed" /\ share'.error = "Not authenticated")]_vars
    /\ [][(authToken # NULL /\ isTokenExpired(authToken)
            /\ share.pc = "idle" /\ share'.pc # "idle")
            => (share'.pc = "failed" /\ share'.error = "Not authenticated")]_vars

(***************************************************************************)
(* C20  No retry inside a call: one upload call invokes the transport      *)
(* store at most once and files.create at most once, one download call     *)
(* invokes fetch at most once, and a call that has failed invokes nothing  *)
(* more.                                                                   *)
(***************************************************************************)
C20_NoRetry ==
    /\ Len(storeCalls) <= 1
    /\ Len(createCalls) <= 1
    /\ Len(fetchCalls) <= 1
    /\ up.pc = "idle" => (storeCalls = <<>> /\ createCalls = <<>>)
    /\ dl.pc = "idle" => fetchCalls = <<>>
    /\ outcome.store = "rejected" => Len(storeCalls) = 1
    /\ outcome.create \in {"rejected", "aborted"} => Len(createCalls) = 1

C20_Witness ==
    /\ up.pc = "failed"
    /\ outcome.store = "rejected"
    /\ Len(storeCalls) = 1
    /\ createCalls = <<>>

(***************************************************************************)
(* C21  Whatever disconnect or authenticate does while an upload is in     *)
(* flight, the transport store is called with a wallet that is not null    *)
(* and every request the upload sends to files.create carries an           *)
(* Authorization header.                                                   *)
(***************************************************************************)
C21_InFlightSession ==
    /\ \A i \in 1..Len(storeCalls) : storeCalls[i].wallet # NULL
    /\ \A i \in 1..Len(createCalls) :
            "authorization" \in DOMAIN createCalls[i].headers

(***************************************************************************)
(* C22  authenticate sends the nonce request only when a wallet with a     *)
(* public key is connected, goes through nonce, signature and verification *)
(* in this order, and sets the token only when the verification has        *)
(* succeeded; a step of it that fails leaves the held token as it is, and  *)
(* no step of an upload or a download changes the token.                   *)
(***************************************************************************)
C22_TokenAfterHandshake ==
    /\ [][(auth.pc # "getNonce" /\ auth'.pc = "getNonce")
            => (auth.pc = "idle" /\ wallet # NULL /\ wallet.publicKey # NONE)]_vars
    /\ [][(auth.pc # "signMessage" /\ auth'.pc = "signMessage")
            => auth.pc = "getNonce"]_vars
    /\ [][(auth.pc # "verify" /\ auth'.pc = "verify")
            => auth.pc = "signMessage"]_vars
    /\ [][(authToken' # authToken /\ authToken' # NULL)
            => (auth.pc = "verify" /\ auth' = AuthIdle)]_vars
    /\ [][(auth' # auth /\ auth'.error # NONE) => authToken' = authToken]_vars
    /\ [][(up' # up \/ dl' # dl) => authToken' = authToken]_vars

C22_Witness ==
    /\ auth.pc = "idle"
    /\ auth.error = "Failed to verify signature"
    /\ authToken # NULL

====
